---- MODULE Spec2Model ----
(***************************************************************************)
(* hexdiff: a model of hexdiff.c (option parsing, layout arithmetic, the   *)
(* chunked compare-and-render loop, the row printers and the colour-run    *)
(* compression of print_diff).                                             *)
(*                                                                         *)
(* C ints are kept as integers with the C semantics that matter here:      *)
(* division truncates toward zero.  An option argument is the int that the *)
(* strtoull result narrows to when the source stores it in an int; the     *)
(* 64-bit counters cnt and eq_run stay far below 2^64 for the file lengths *)
(* explored, so their wrap-around is out of reach.                         *)
(***************************************************************************)
EXTENDS Integers, Sequences, FiniteSets, TLC

\* ------------------------------------------------------------------ bounds
MaxOpts == 2        \* options on the command line
MaxFileLen == 2     \* bytes in an input file
MaxSkip == 1        \* largest skip offset given on the command line
MaxW == 9           \* largest row width handed to print_diff in SpecDiff
MaxLoopW == 3       \* largest row width the loop is run with in SpecLoop
MaxWidth == 120     \* display widths from -MaxWidth to MaxWidth in SpecFit

\* ------------------------------------------------------- program constants
BUFFER_SIZE == 256
DefaultBytesW == 16
LastIdx == 7

\* ---------------------------------------------------------- input alphabet
\* 0x00 (the padding value, not printable) and 0x41 'A' (printable)
Byte == {0, 65}
Dot == 46

\* option arguments: the value stored by bytes_w = strtoull(...) and
\* size_w = strtoull(...) (an int, so "-1" is stored as -1), and by
\* max_len = strtoull(...)
ColArgs == {0, 1, 2, 300}
WidthArgs == {0, 20, 57, 5000}
LenArgs == {1, 2}
\* what TIOCGWINSZ leaves in w.ws_col (0 when stdout is not a terminal)
TermCols == {0, 57, 5000}

Min(a, b) == IF a < b THEN a ELSE b
Max(a, b) == IF a > b THEN a ELSE b

\* ------------------------------------------------------------ C arithmetic
\* C integer division (truncation toward zero), b > 0
CDiv(a, b) == IF a >= 0 THEN a \div b ELSE -((-a) \div b)

Not(x) == IF x = 0 THEN 1 ELSE 0

\* hexdiff.c:158  fit_bytes
fit_bytes_short_label(width, d) ==
    CDiv(CDiv((CDiv(width, 2) * 2) - (12 + 2) * 2 - 3, 2), 3 + Not(d))

fit_bytes(width, d) ==
    CDiv(CDiv((CDiv(width, 2) * 2) - (12 + 2 + 1) * 2 - 3, 2), 3 + Not(d))

\* hexdiff.c:190-195  case 'c'
ClampCols(v) ==
    LET b1 == IF v < 1 THEN DefaultBytesW ELSE v
    IN  IF b1 > 256 THEN 256 ELSE b1

\* hexdiff.c:68  printicize
printicize(buf) ==
    [i \in DOMAIN buf |-> IF buf[i] < 32 \/ buf[i] > 126 THEN Dot ELSE buf[i]]

\* ------------------------------------------------------------- row printers
\* ANSI escape sequences (hexdiff.c:34-37); empty_str is ""
ansi_green == "green"
ansi_red == "red"
ansi_reset == "reset"
empty_str == ""

\* what an uninitialised slot of color[] may compare as: the address of
\* ansi_red, or anything else
Garbage == {ansi_red, "indeterminate"}

\* one printf conversion: the escape sequence written in front of it, the
\* part of the row it belongs to, the byte position and value, and the
\* number of characters it puts on the terminal
Tok(esc, part, i, v, len) == [esc |-> esc, part |-> part, i |-> i, v |-> v, len |-> len]

HexLen(d) == 2 + Not(d)

\* hexdiff.c:79-101  print_same
print_same(b1, b2, n, s1, s2, c, d) ==
    LET a1 == printicize(b1)
        a2 == printicize(b2)
    IN  <<Tok(ansi_reset, "off1", 0, s1 + c, 14)>>
        \o [i \in 1..n |-> Tok(empty_str, "hex1", i, b1[i], HexLen(d))]
        \o <<Tok(empty_str, "sep1", 0, 0, 1)>>
        \o [i \in 1..n |-> Tok(empty_str, "asc1", i, a1[i], 1)]
        \o <<Tok(empty_str, "gap", 0, 0, 4)>>
        \o <<Tok(empty_str, "off2", 0, s2 + c, 14)>>
        \o [i \in 1..n |-> Tok(empty_str, "hex2", i, b2[i], HexLen(d))]
        \o <<Tok(empty_str, "sep2", 0, 0, 1)>>
        \o [i \in 1..n |-> Tok(empty_str, "asc2", i, a2[i], 1)]

\* hexdiff.c:110-112  the per-byte colours
RawColor(b1, b2, n) ==
    [i \in 1..n |-> IF b1[i] = b2[i] THEN ansi_green ELSE ansi_red]

\* hexdiff.c:127-131  one iteration of the loop, on element i: a directive
\* equal to color_last is replaced by the empty string, any other one
\* becomes color_last
CompressStep(color, i, color_last) ==
    IF color[i] = color_last
    THEN [out |-> <<empty_str>>, last |-> color_last]
    ELSE [out |-> <<color[i]>>, last |-> color[i]]

\* hexdiff.c:126-132  the iterations lo .. hi in order, entered with
\* color_last: the directives they leave in color[lo .. hi] and the
\* color_last they end with.  The range is run as two halves one after the
\* other, which keeps the nesting of the evaluation logarithmic in n.
RECURSIVE CompressRange(_, _, _, _)
CompressRange(color, lo, hi, color_last) ==
    IF lo > hi THEN [out |-> <<>>, last |-> color_last]
    ELSE IF lo = hi THEN CompressStep(color, lo, color_last)
    ELSE LET mid == (lo + hi) \div 2
             a == CompressRange(color, lo, mid, color_last)
             b == CompressRange(color, mid + 1, hi, a.last)
         IN  [out |-> a.out \o b.out, last |-> b.last]

\* hexdiff.c:115-132  color[] after the redundant sequences are removed;
\* color[7] is element LastIdx + 1 here (sequences start at 1), and is the
\* uninitialised value g when the row has fewer than 8 bytes
Directives(b1, b2, n, g) ==
    LET raw == RawColor(b1, b2, n)
        c7 == IF LastIdx + 1 <= n THEN raw[LastIdx + 1] ELSE g
        first == IF raw[1] = ansi_red /\ c7 = ansi_red THEN empty_str ELSE raw[1]
    IN  <<first>> \o CompressRange(raw, 2, n, raw[1]).out

\* hexdiff.c:104-155  print_diff
print_diff(b1, b2, n, s1, s2, c, d, g) ==
    LET color == Directives(b1, b2, n, g)
        a1 == printicize(b1)
        a2 == printicize(b2)
    IN  <<Tok(ansi_red, "off1", 0, s1 + c, 14)>>
        \o [i \in 1..n |-> Tok(color[i], "hex1", i, b1[i], HexLen(d))]
        \o <<Tok(empty_str, "sep1", 0, 0, 1)>>
        \o [i \in 1..n |-> Tok(color[i], "asc1", i, a1[i], 1)]
        \o <<Tok(empty_str, "gap", 0, 0, 4)>>
        \o <<Tok(ansi_red, "off2", 0, s2 + c, 14)>>
        \o [i \in 1..n |-> Tok(color[i], "hex2", i, b2[i], HexLen(d))]
        \o <<Tok(empty_str, "sep2", 0, 0, 1)>>
        \o [i \in 1..n |-> Tok(color[i], "asc2", i, a2[i], 1)]
        \o <<Tok(ansi_reset, "end", 0, 0, 0)>>

\* the colour a terminal shows token k of a row in: the last escape sequence
\* written at or before it
RECURSIVE Shown(_, _)
Shown(toks, k) ==
    IF k = 0 THEN "none"
    ELSE IF toks[k].esc # empty_str THEN toks[k].esc
         ELSE Shown(toks, k - 1)


\* the "...\n" placeholder (hexdiff.c:271)
dots_line == <<Tok(empty_str, "dots", 0, 0, 3)>>

\* ------------------------------------------------------------------- state
VARIABLES
    pc,          \* position in main
    optsleft,    \* option arguments getopt has not returned yet
    show_all, dense, skip_same, size_w, bytes_w, max_len,
    last_c,      \* history: the argument of the last -c option, -1 if none
    skip1, skip2,
    file1, file2,   \* "null", "open" or "closed"
    len1, len2,     \* length of each input file
    pos1, pos2,     \* file position of each stream
    handler,        \* sigint_handler is installed
    sigint_recv,
    input_end, cnt, eq_run,
    buf1, buf2,     \* the first bytes_w elements of each buffer
    r1, r2,         \* history: what the last fread on each stream returned
    out,            \* kinds of the lines written to stdout, in order
    line,           \* the last line written, conversion by conversion
    chunks,         \* history: one record per chunk pair processed
    status          \* "running", "success" or "failure"

vars == <<pc, optsleft, show_all, dense, skip_same, size_w, bytes_w, max_len,
          last_c, skip1, skip2, file1, file2, len1, len2, pos1, pos2, handler,
          sigint_recv, input_end, cnt, eq_run, buf1, buf2, r1, r2, out, line,
          chunks, status>>

optvars == <<show_all, dense, skip_same, size_w, bytes_w, max_len, last_c>>
filevars == <<file1, file2, len1, len2, pos1, pos2>>
loopvars == <<input_end, cnt, eq_run, buf1, buf2, r1, r2, out, line, chunks>>

\* an element of a buffer that has not been written yet
Indet == -1

\* hexdiff.c:164-173  declarations and the TIOCGWINSZ query
Init ==
    /\ pc = "getopt"
    /\ optsleft \in 0..MaxOpts
    /\ show_all = 0 /\ dense = 0 /\ skip_same = 0
    /\ size_w \in TermCols
    /\ bytes_w = DefaultBytesW
    /\ max_len = 0
    /\ last_c = -1
    /\ skip1 = 0 /\ skip2 = 0
    /\ file1 = "null" /\ file2 = "null"
    /\ len1 = 0 /\ len2 = 0 /\ pos1 = 0 /\ pos2 = 0
    /\ handler = FALSE
    /\ sigint_recv = 0
    /\ input_end = 0 /\ cnt = 0 /\ eq_run = 0
    /\ buf1 = <<>> /\ buf2 = <<>>
    /\ r1 = 0 /\ r2 = 0
    /\ out = <<>>
    /\ line = <<>>
    /\ chunks = <<>>
    /\ status = "running"

\* ---------------------------------------------------------- option parsing
Getopt ==
    /\ pc = "getopt"
    /\ optsleft > 0
    /\ optsleft' = optsleft - 1

\* hexdiff.c:48-65  show_help: usage text, exit(EXIT_FAILURE).  file1 and
\* file2 record what main itself did to each stream: exit() is no fclose by
\* the program, a stream it leaves behind stays "open" here and is torn down
\* by the C runtime and the kernel afterwards.
show_help ==
    /\ pc' = "exit"
    /\ status' = "failure"

\* hexdiff.c:178-180
OptA ==
    /\ Getopt
    /\ show_all' = 1
    /\ UNCHANGED <<pc, status, dense, skip_same, size_w, bytes_w, max_len, last_c>>
    /\ UNCHANGED <<skip1, skip2, handler, sigint_recv>>
    /\ UNCHANGED filevars /\ UNCHANGED loopvars

\* hexdiff.c:181-183
OptH ==
    /\ Getopt
    /\ show_help
    /\ UNCHANGED optvars
    /\ UNCHANGED <<skip1, skip2, handler, sigint_recv>>
    /\ UNCHANGED filevars /\ UNCHANGED loopvars

\* hexdiff.c:184-186
OptD ==
    /\ Getopt
    /\ dense' = 1
    /\ UNCHANGED <<pc, status, show_all, skip_same, size_w, bytes_w, max_len, last_c>>
    /\ UNCHANGED <<skip1, skip2, handler, sigint_recv>>
    /\ UNCHANGED filevars /\ UNCHANGED loopvars

\* hexdiff.c:187-189
OptS ==
    /\ Getopt
    /\ skip_same' = 1
    /\ UNCHANGED <<pc, status, show_all, dense, size_w, bytes_w, max_len, last_c>>
    /\ UNCHANGED <<skip1, skip2, handler, sigint_recv>>
    /\ UNCHANGED filevars /\ UNCHANGED loopvars

\* hexdiff.c:190-195
OptC ==
    /\ Getopt
    /\ \E v \in ColArgs :
        /\ size_w' = 0
        /\ bytes_w' = ClampCols(v)
        /\ last_c' = v
    /\ UNCHANGED <<pc, status, show_all, dense, skip_same, max_len>>
    /\ UNCHANGED <<skip1, skip2, handler, sigint_recv>>
    /\ UNCHANGED filevars /\ UNCHANGED loopvars

\* hexdiff.c:196-198
OptW ==
    /\ Getopt
    /\ \E v \in WidthArgs : size_w' = v
    /\ UNCHANGED <<pc, status, show_all, dense, skip_same, bytes_w, max_len, last_c>>
    /\ UNCHANGED <<skip1, skip2, handler, sigint_recv>>
    /\ UNCHANGED filevars /\ UNCHANGED loopvars

\* hexdiff.c:199-201
OptN ==
    /\ Getopt
    /\ \E v \in LenArgs : max_len' = v
    /\ UNCHANGED <<pc, status, show_all, dense, skip_same, size_w, bytes_w, last_c>>
    /\ UNCHANGED <<skip1, skip2, handler, sigint_recv>>
    /\ UNCHANGED filevars /\ UNCHANGED loopvars

\* hexdiff.c:202-203  an option getopt does not know
OptBad ==
    /\ Getopt
    /\ show_help
    /\ UNCHANGED optvars
    /\ UNCHANGED <<skip1, skip2, handler, sigint_recv>>
    /\ UNCHANGED filevars /\ UNCHANGED loopvars

\* hexdiff.c:207-210  getopt returned -1: derive the row width from the
\* display width unless size_w is 0
FitWidth ==
    /\ pc = "getopt"
    /\ optsleft = 0
    /\ bytes_w' = IF size_w # 0
                  THEN Max(fit_bytes(size_w, dense), 1)
                  ELSE bytes_w
    /\ pc' = "args"
    /\ UNCHANGED <<optsleft, status, show_all, dense, skip_same, size_w, max_len, last_c>>
    /\ UNCHANGED <<skip1, skip2, handler, sigint_recv>>
    /\ UNCHANGED filevars /\ UNCHANGED loopvars

\* hexdiff.c:213-218  file names and skip values; npos = argc - optind
ArgsBad ==
    /\ pc = "args"
    /\ \E npos \in {0, 1, 5} : show_help
    /\ UNCHANGED optvars
    /\ UNCHANGED <<optsleft, skip1, skip2, handler, sigint_recv>>
    /\ UNCHANGED filevars /\ UNCHANGED loopvars

ArgsOk ==
    /\ pc = "args"
    /\ \E npos \in 2..4 : \E a1, a2 \in 1..MaxSkip :
        /\ skip1' = IF npos >= 3 THEN a1 ELSE 0
        /\ skip2' = IF npos >= 4 THEN a2 ELSE 0
    /\ pc' = "open1"
    /\ UNCHANGED optvars
    /\ UNCHANGED <<optsleft, status, handler, sigint_recv>>
    /\ UNCHANGED filevars /\ UNCHANGED loopvars

\* ------------------------------------------------------- opening the inputs
\* hexdiff.c:221-224  fopen(fname1): NULL, or a stream on a file of some length
Open1Fail ==
    /\ pc = "open1"
    /\ pc' = "exit"
    /\ status' = "failure"
    /\ UNCHANGED optvars
    /\ UNCHANGED <<optsleft, skip1, skip2, handler, sigint_recv>>
    /\ UNCHANGED filevars /\ UNCHANGED loopvars

Open1 ==
    /\ pc = "open1"
    /\ file1' = "open"
    /\ \E n \in 0..MaxFileLen : len1' = n
    /\ pc' = "open2"
    /\ UNCHANGED optvars
    /\ UNCHANGED <<optsleft, status, skip1, skip2, handler, sigint_recv>>
    /\ UNCHANGED <<file2, len2, pos1, pos2>> /\ UNCHANGED loopvars

\* hexdiff.c:225-228
Open2Fail ==
    /\ pc = "open2"
    /\ pc' = "exit"
    /\ status' = "failure"
    /\ UNCHANGED optvars
    /\ UNCHANGED <<optsleft, skip1, skip2, handler, sigint_recv>>
    /\ UNCHANGED filevars /\ UNCHANGED loopvars

Open2 ==
    /\ pc = "open2"
    /\ file2' = "open"
    /\ \E n \in 0..MaxFileLen : len2' = n
    /\ pc' = "seek1"
    /\ UNCHANGED optvars
    /\ UNCHANGED <<optsleft, status, skip1, skip2, handler, sigint_recv>>
    /\ UNCHANGED <<file1, len1, pos1, pos2>> /\ UNCHANGED loopvars

\* hexdiff.c:230-235  fseeko(file1, skip1, SEEK_SET); it fails on a stream that
\* cannot seek, and succeeds past the end of a regular file
Seek1Fail ==
    /\ pc = "seek1"
    /\ pc' = "exit"
    /\ status' = "failure"
    /\ UNCHANGED optvars
    /\ UNCHANGED <<optsleft, skip1, skip2, handler, sigint_recv>>
    /\ UNCHANGED filevars /\ UNCHANGED loopvars

Seek1 ==
    /\ pc = "seek1"
    /\ pos1' = skip1
    /\ pc' = "seek2"
    /\ UNCHANGED optvars
    /\ UNCHANGED <<optsleft, status, skip1, skip2, handler, sigint_recv>>
    /\ UNCHANGED <<file1, file2, len1, len2, pos2>> /\ UNCHANGED loopvars

\* hexdiff.c:236-241
Seek2Fail ==
    /\ pc = "seek2"
    /\ pc' = "exit"
    /\ status' = "failure"
    /\ UNCHANGED optvars
    /\ UNCHANGED <<optsleft, skip1, skip2, handler, sigint_recv>>
    /\ UNCHANGED filevars /\ UNCHANGED loopvars

Seek2 ==
    /\ pc = "seek2"
    /\ pos2' = skip2
    /\ pc' = "sigaction"
    /\ UNCHANGED optvars
    /\ UNCHANGED <<optsleft, status, skip1, skip2, handler, sigint_recv>>
    /\ UNCHANGED <<file1, file2, len1, len2, pos1>> /\ UNCHANGED loopvars

\* hexdiff.c:243-249  install the handler, clear the loop counters
SigSetup ==
    /\ pc = "sigaction"
    /\ handler' = TRUE
    /\ input_end' = 0
    /\ cnt' = 0
    /\ eq_run' = 0
    /\ pc' = "test"
    /\ UNCHANGED optvars
    /\ UNCHANGED <<optsleft, status, skip1, skip2, sigint_recv>>
    /\ UNCHANGED filevars
    /\ UNCHANGED <<buf1, buf2, r1, r2, out, line, chunks>>

\* hexdiff.c:42-45  sigint_handler, run whenever SIGINT is delivered once
\* the handler is installed
Sigint ==
    /\ handler
    /\ pc \in {"test", "read", "emit", "close"}
    /\ sigint_recv' = 1
    /\ UNCHANGED optvars
    /\ UNCHANGED <<pc, optsleft, status, skip1, skip2, handler>>
    /\ UNCHANGED filevars /\ UNCHANGED loopvars

\* ------------------------------------------------------------ the main loop
\* hexdiff.c:250-251  the while condition
LoopCondNoSigint ==
    /\ input_end = 0
    /\ (cnt < max_len \/ max_len = 0)

LoopCond ==
    /\ input_end = 0
    /\ (cnt < max_len \/ max_len = 0)
    /\ sigint_recv = 0

LoopTest ==
    /\ pc = "test"
    /\ pc' = IF LoopCond THEN "read" ELSE "close"
    /\ UNCHANGED optvars
    /\ UNCHANGED <<optsleft, status, skip1, skip2, handler, sigint_recv>>
    /\ UNCHANGED filevars /\ UNCHANGED loopvars

\* hexdiff.c:254-255  memset(buf, 0, n)
memset_skipped(buf, n) == [i \in 1..n |-> IF i \in DOMAIN buf THEN buf[i] ELSE Indet]

memset0(buf, n) == [i \in 1..n |-> 0]

\* hexdiff.c:259-264  the two tests fread(...) != bytes_w
ShortReadBoth(k1, k2, n) == k1 # n /\ k2 # n

ShortRead(k1, k2, n) == k1 # n \/ k2 # n

\* fread(buf, 1, n, file): the number of bytes a stream at pos on a file of
\* length len delivers
Avail(len, pos, n) == Min(n, Max(len - pos, 0))

\* buf after fread stored data in its first Len(data) elements
Stored(buf, data) ==
    [i \in DOMAIN buf |-> IF i <= Len(data) THEN data[i] ELSE buf[i]]

\* hexdiff.c:254-264  clear both buffers, read one chunk from each stream
ReadChunks ==
    /\ pc = "read"
    /\ bytes_w <= BUFFER_SIZE
    /\ LET k1 == Avail(len1, pos1, bytes_w)
           k2 == Avail(len2, pos2, bytes_w)
       IN  /\ \E d1 \in [1..k1 -> Byte] : buf1' = Stored(memset0(buf1, bytes_w), d1)
           /\ \E d2 \in [1..k2 -> Byte] : buf2' = Stored(memset0(buf2, bytes_w), d2)
           /\ pos1' = pos1 + k1
           /\ pos2' = pos2 + k2
           /\ r1' = k1
           /\ r2' = k2
           /\ input_end' = IF ShortRead(k1, k2, bytes_w) THEN 1 ELSE input_end
    /\ pc' = "emit"
    /\ UNCHANGED optvars
    /\ UNCHANGED <<optsleft, status, skip1, skip2, handler, sigint_recv>>
    /\ UNCHANGED <<file1, file2, len1, len2>>
    /\ UNCHANGED <<cnt, eq_run, out, line, chunks>>

\* hexdiff.c:254  with bytes_w above BUFFER_SIZE memset writes past the end of
\* buf1: undefined behaviour, nothing is modelled past this point
ReadOverflow ==
    /\ pc = "read"
    /\ bytes_w > BUFFER_SIZE
    /\ pc' = "overflow"
    /\ UNCHANGED optvars
    /\ UNCHANGED <<optsleft, status, skip1, skip2, handler, sigint_recv>>
    /\ UNCHANGED filevars /\ UNCHANGED loopvars

\* hexdiff.c:266  memcmp(buf1, buf2, bytes_w) == 0
memcmp0(b1, b2, n) == \A i \in 1..n : b1[i] = b2[i]

\* hexdiff.c:267  the condition under which an equal row is printed
PrintsSame == (skip_same = 0 /\ eq_run = 0) \/ show_all = 1

\* hexdiff.c:270  the condition under which the placeholder is printed
PrintsDotsEvery == eq_run >= 1

PrintsDots == eq_run = 1

\* what every branch of the loop body shares: the history record, and
\* hexdiff.c:280  cnt += bytes_w
Processed(kind) ==
    /\ chunks' = Append(chunks, [eq |-> memcmp0(buf1, buf2, bytes_w), emit |-> kind,
                                 short |-> input_end = 1])
    /\ cnt' = cnt + bytes_w
    /\ pc' = "test"
    /\ UNCHANGED optvars
    /\ UNCHANGED <<optsleft, status, skip1, skip2, handler, sigint_recv>>
    /\ UNCHANGED filevars
    /\ UNCHANGED <<input_end, r1, r2>>

\* hexdiff.c:267-269, 273
EmitSame ==
    /\ pc = "emit"
    /\ memcmp0(buf1, buf2, bytes_w)
    /\ PrintsSame
    /\ Processed("same")
    /\ line' = print_same(buf1, buf2, bytes_w, skip1, skip2, cnt, dense)
    /\ out' = Append(out, "same")
    /\ buf1' = printicize(buf1)
    /\ buf2' = printicize(buf2)
    /\ eq_run' = eq_run + 1

\* hexdiff.c:270-273
EmitDots ==
    /\ pc = "emit"
    /\ memcmp0(buf1, buf2, bytes_w)
    /\ ~PrintsSame
    /\ PrintsDots
    /\ Processed("dots")
    /\ line' = dots_line
    /\ out' = Append(out, "dots")
    /\ eq_run' = eq_run + 1
    /\ UNCHANGED <<buf1, buf2>>

\* hexdiff.c:266-273  an equal chunk pair that prints nothing
EmitNone ==
    /\ pc = "emit"
    /\ memcmp0(buf1, buf2, bytes_w)
    /\ ~PrintsSame
    /\ ~PrintsDots
    /\ Processed("none")
    /\ eq_run' = eq_run + 1
    /\ UNCHANGED <<buf1, buf2, out, line>>

\* color[7] is read (hexdiff.c:117) only when color[0] is red; below 8 bytes
\* per row it was never assigned
Color7(b1, b2, n) ==
    IF n < LastIdx + 1 /\ b1[1] # b2[1] THEN Garbage ELSE {"indeterminate"}

\* hexdiff.c:274-278
EmitDiff ==
    /\ pc = "emit"
    /\ ~memcmp0(buf1, buf2, bytes_w)
    /\ Processed("diff")
    /\ \E g \in Color7(buf1, buf2, bytes_w) :
         line' = print_diff(buf1, buf2, bytes_w, skip1, skip2, cnt, dense, g)
    /\ out' = Append(out, "diff")
    /\ buf1' = printicize(buf1)
    /\ buf2' = printicize(buf2)
    /\ eq_run' = 0

\* hexdiff.c:283-286
Close ==
    /\ pc = "close"
    /\ file1' = "closed"
    /\ file2' = "closed"
    /\ status' = "success"
    /\ pc' = "done"
    /\ UNCHANGED optvars
    /\ UNCHANGED <<optsleft, skip1, skip2, handler, sigint_recv>>
    /\ UNCHANGED <<len1, len2, pos1, pos2>> /\ UNCHANGED loopvars

\* the steps of main
Main ==
    \/ OptA \/ OptH \/ OptD \/ OptS \/ OptC \/ OptW \/ OptN \/ OptBad
    \/ FitWidth \/ ArgsBad \/ ArgsOk
    \/ Open1Fail \/ Open1 \/ Open2Fail \/ Open2
    \/ Seek1Fail \/ Seek1 \/ Seek2Fail \/ Seek2
    \/ SigSetup
    \/ LoopTest \/ ReadChunks \/ ReadOverflow
    \/ EmitSame \/ EmitDots \/ EmitNone \/ EmitDiff
    \/ Close

Next == Main \/ Sigint

Spec == Init /\ [][Next]_vars


TypeOK ==
    /\ pc \in {"getopt", "args", "open1", "open2", "seek1", "seek2", "sigaction",
               "test", "read", "emit", "close", "done", "exit", "overflow"}
    /\ status \in {"running", "success", "failure"}
    /\ bytes_w \in Int
    /\ eq_run \in Nat /\ cnt \in Nat

\* ------------------------------------------------ print_diff on its own
\* One call of print_diff on a differing chunk pair of every width up to
\* MaxW: buf1 is a constant chunk and buf2 any chunk, which covers every
\* equality mask.
InitDiff ==
    /\ pc = "diff_call"
    /\ optsleft = 0
    /\ show_all = 0 /\ skip_same = 0
    /\ dense \in {0, 1}
    /\ size_w = 0
    /\ bytes_w \in 1..MaxW
    /\ max_len = 0
    /\ last_c = -1
    /\ skip1 = 0 /\ skip2 = 0
    /\ file1 = "open" /\ file2 = "open"
    /\ len1 = 0 /\ len2 = 0 /\ pos1 = 0 /\ pos2 = 0
    /\ handler = TRUE
    /\ sigint_recv = 0
    /\ input_end = 0 /\ cnt = 0 /\ eq_run = 0
    /\ buf1 \in {[i \in 1..bytes_w |-> b] : b \in Byte}
    /\ buf2 \in [1..bytes_w -> Byte]
    /\ ~memcmp0(buf1, buf2, bytes_w)
    /\ r1 = bytes_w /\ r2 = bytes_w
    /\ out = <<>>
    /\ line = <<>>
    /\ chunks = <<>>
    /\ status = "running"

\* hexdiff.c:275  print_diff(buf1, buf2, bytes_w, skip1, skip2, cnt, dense)
DiffCall ==
    /\ pc = "diff_call"
    /\ \E g \in Color7(buf1, buf2, bytes_w) :
         line' = print_diff(buf1, buf2, bytes_w, skip1, skip2, cnt, dense, g)
    /\ buf1' = printicize(buf1)
    /\ buf2' = printicize(buf2)
    /\ out' = Append(out, "diff")
    /\ pc' = "diff_ret"
    /\ UNCHANGED optvars
    /\ UNCHANGED <<optsleft, status, skip1, skip2, handler, sigint_recv>>
    /\ UNCHANGED filevars
    /\ UNCHANGED <<input_end, cnt, eq_run, r1, r2, chunks>>

NextDiff == DiffCall

SpecDiff == InitDiff /\ [][NextDiff]_vars

\* ------------------------------------------------------ the loop on its own
\* main from the point where both streams are open and positioned
\* (hexdiff.c:243), for every row width up to MaxLoopW, every pair of file
\* lengths and skip offsets, and each flag either way.
InitLoop ==
    /\ pc = "sigaction"
    /\ optsleft = 0
    /\ show_all \in {0, 1} /\ skip_same \in {0, 1}
    /\ dense = 0
    /\ size_w = 0
    /\ bytes_w \in 1..MaxLoopW
    /\ max_len \in {0} \cup LenArgs
    /\ last_c = -1
    /\ skip1 \in 0..MaxSkip /\ skip2 \in 0..MaxSkip
    /\ file1 = "open" /\ file2 = "open"
    /\ len1 \in 0..MaxFileLen /\ len2 \in 0..MaxFileLen
    /\ pos1 = skip1 /\ pos2 = skip2
    /\ handler = FALSE
    /\ sigint_recv = 0
    /\ input_end = 0 /\ cnt = 0 /\ eq_run = 0
    /\ buf1 = <<>> /\ buf2 = <<>>
    /\ r1 = 0 /\ r2 = 0
    /\ out = <<>>
    /\ line = <<>>
    /\ chunks = <<>>
    /\ status = "running"

MainLoop ==
    \/ SigSetup
    \/ LoopTest \/ ReadChunks
    \/ EmitSame \/ EmitDots \/ EmitNone \/ EmitDiff
    \/ Close

NextLoop == MainLoop \/ Sigint

SpecLoop == InitLoop /\ [][NextLoop]_vars

\* main is a sequential program whose calls all return: it keeps taking
\* steps until it returns.  Nothing is assumed about when SIGINT arrives.
FairLoop == SpecLoop /\ WF_vars(MainLoop)

\* ------------------------------------------------------------------ claims
BytePart == {"hex1", "asc1", "hex2", "asc2"}

\* the byte print_diff wrote in hex at position i of one side of a row
HexByte(toks, part, i) ==
    LET k == CHOOSE k \in DOMAIN toks : toks[k].part = part /\ toks[k].i = i
    IN  toks[k].v

\* the colour of position i with one escape sequence per byte
NaiveColor(toks, i) ==
    IF HexByte(toks, "hex1", i) = HexByte(toks, "hex2", i) THEN ansi_green ELSE ansi_red

RowWidthOf(toks) == Cardinality({k \in DOMAIN toks : toks[k].part = "hex1"})

\* C1: replaying the escape sequences of a diff row shows every hex and
\* every ASCII position, on both sides, in the colour of its own byte
\* comparison (green where buf1[i] = buf2[i], red where they differ), and the
\* sequence at position 0 is left out only when position 0 and the last
\* position of the row are both red.  Stated for the rows of 8 bytes and
\* more, where print_diff reads no element of color[] it did not assign, so
\* that a violation does not rest on an indeterminate value.
C1_ReplayIsNaive ==
    (pc = "diff_ret" /\ bytes_w >= LastIdx + 1) =>
        /\ \A k \in DOMAIN line :
              line[k].part \in BytePart => Shown(line, k) = NaiveColor(line, line[k].i)
        /\ \A k \in DOMAIN line :
              (line[k].part \in BytePart /\ line[k].i = 1 /\ line[k].esc = empty_str)
                  => /\ NaiveColor(line, 1) = ansi_red
                     /\ NaiveColor(line, RowWidthOf(line)) = ansi_red

\* the same at the one width the test reads the last element at, 8
ReplayIsNaiveAt8 ==
    (pc = "diff_ret" /\ bytes_w = LastIdx + 1) =>
        \A k \in DOMAIN line :
            line[k].part \in BytePart => Shown(line, k) = NaiveColor(line, line[k].i)

\* ---- the chunk history
NChunks == Len(chunks)

\* the number of consecutive equal chunk pairs ending with pair i
RECURSIVE RunPos(_, _)
RunPos(ch, i) ==
    IF i = 0 THEN 0
    ELSE IF ~ch[i].eq THEN 0
    ELSE 1 + RunPos(ch, i - 1)

\* pair i starts a maximal run of equal chunk pairs
StartsRun(ch, i) == ch[i].eq /\ (i = 1 \/ ~ch[i - 1].eq)

NRuns(ch) == Cardinality({i \in DOMAIN ch : StartsRun(ch, i)})

Count(sq, x) == Cardinality({i \in DOMAIN sq : sq[i] = x})

\* the lines a sequence of per-pair emissions puts on stdout
RECURSIVE LinesOf(_)
LinesOf(ch) ==
    IF ch = <<>> THEN <<>>
    ELSE LET rest == LinesOf(SubSeq(ch, 1, Len(ch) - 1))
             e == ch[Len(ch)].emit
         IN  IF e = "none" THEN rest ELSE Append(rest, e)

\* C2: with show-all and skip-same both off, a differing pair prints one
\* diff row and leaves the run counter at 0; in a run of equal pairs the
\* first prints the row, the second the placeholder, the third and later
\* nothing; stdout holds exactly these lines in order.
C2_RunCollapse ==
    (show_all = 0 /\ skip_same = 0) =>
        /\ \A i \in DOMAIN chunks :
              LET p == RunPos(chunks, i)
              IN  chunks[i].emit = CASE p = 0 -> "diff"
                                     [] p = 1 -> "same"
                                     [] p = 2 -> "dots"
                                     [] OTHER -> "none"
        /\ out = LinesOf(chunks)
        /\ (pc \in {"test", "close", "done"} => eq_run = RunPos(chunks, NChunks))

\* a run of three equal pairs has been processed: row, placeholder, nothing
C2_Witness ==
    /\ show_all = 0 /\ skip_same = 0
    /\ NChunks >= 3
    /\ chunks[1].emit = "same" /\ chunks[2].emit = "dots" /\ chunks[3].emit = "none"
    /\ out = <<"same", "dots">>

\* C3: with skip-same on and show-all off, no equal pair is printed as a
\* row, and when the run is over stdout holds exactly one placeholder for
\* every maximal run of equal pairs, whatever its length.
C3_SkipSamePlaceholder ==
    (skip_same = 1 /\ show_all = 0) =>
        /\ Count(out, "same") = 0
        /\ (pc = "done" => Count(out, "dots") = NRuns(chunks))

\* C4: with max-bytes N nonzero, the bytes compared and shown per side
\* (pairs processed times the row width) never exceed N.
C4_MaxBytes ==
    (max_len # 0) => NChunks * bytes_w <= max_len

LoopPcs == {"test", "read", "emit", "close"}

\* C5: the row width in effect when a chunk pair is read lies in 1..256 and
\* does not change from then on.
C5_RowWidthRange ==
    /\ [](pc = "read" => (1 <= bytes_w /\ bytes_w <= BUFFER_SIZE))
    /\ [][(pc \in LoopPcs) => (bytes_w' = bytes_w)]_vars

\* C6: when -c N with 1 <= N <= 256 was given, the row width the chunks are
\* read with is N, whatever the terminal width and wherever a -w stands.
C6_ColumnsWin ==
    (pc = "read" /\ last_c >= 1 /\ last_c <= 256) => bytes_w = last_c

\* C7: at comparison time every position of a chunk beyond the bytes fread
\* returned is zero; a byte of one input that is not zero and lies past the
\* end of the other makes the pair differ; and every pair that differs was
\* printed as a diff row.
C7_ZeroPadded ==
    /\ (pc = "emit") =>
          /\ \A i \in 1..bytes_w : (i > r1 => buf1[i] = 0) /\ (i > r2 => buf2[i] = 0)
          /\ (\E i \in 1..bytes_w : \/ (i > r1 /\ i <= r2 /\ buf2[i] # 0)
                                    \/ (i > r2 /\ i <= r1 /\ buf1[i] # 0))
                => ~memcmp0(buf1, buf2, bytes_w)
    /\ \A j \in DOMAIN chunks : ~chunks[j].eq => chunks[j].emit = "diff"

\* the second pair is short on file1 only, file2 holds 'A' past the end of
\* file1, and the pair came out as a diff row
C7_Witness ==
    /\ pc = "test"
    /\ NChunks >= 2
    /\ r1 < r2
    /\ buf2[r1 + 1] = 65 /\ buf1[r1 + 1] = Dot
    /\ chunks[NChunks].emit = "diff"

\* C8: at every exit of the program each stream that was opened has been
\* closed by it.
C8_ClosedAtExit ==
    (pc \in {"done", "exit"}) => (file1 # "open" /\ file2 # "open")

\* bytes left in each input after its skip offset
Remaining(len, skip) == Max(len - skip, 0)

\* C9: with max-bytes 0 and no SIGINT the loop ends at end-of-input only:
\* floor(min(R1, R2) / RowWidth) + 1 pairs are processed, the last is the
\* only one with a short read; and a loop entered with a row width the
\* buffers can hold always reaches the end of main.
C9_EndOfInput ==
    /\ []((pc = "done" /\ max_len = 0 /\ sigint_recv = 0) =>
            /\ NChunks = (Min(Remaining(len1, skip1), Remaining(len2, skip2)) \div bytes_w) + 1
            /\ chunks[NChunks].short
            /\ \A i \in 1..(NChunks - 1) : ~chunks[i].short)
    /\ ((pc = "test" /\ bytes_w <= BUFFER_SIZE) ~> (pc = "done"))

\* both inputs held two full rows and more, and the loop ran to the end
C9_Witness ==
    /\ pc = "done" /\ max_len = 0 /\ sigint_recv = 0
    /\ NChunks = 3
    /\ Remaining(len1, skip1) >= 2 * bytes_w
    /\ Remaining(len2, skip2) >= 2 * bytes_w

\* C10: a chunk pair that was read is processed, and its line written in
\* full, before the loop condition is evaluated again; when the condition
\* is evaluated with the flag set no further pair is read or printed, both
\* streams are closed and main returns success.
C10_CancelAtBoundary ==
    /\ [][(pc = "emit" /\ pc' # "emit") =>
            (pc' = "test" /\ Len(chunks') = NChunks + 1)]_vars
    /\ []((out # <<>> /\ out[Len(out)] = "diff") => line[Len(line)].esc = ansi_reset)
    /\ [][(pc = "test" /\ sigint_recv = 1 /\ pc' # "test") => pc' = "close"]_vars
    /\ [][(pc = "close" /\ pc' # "close") =>
            (pc' = "done" /\ out' = out /\ chunks' = chunks /\ pos1' = pos1 /\ pos2' = pos2)]_vars
    /\ [](pc = "done" => (file1 = "closed" /\ file2 = "closed" /\ status = "success"))

\* SIGINT arrived while a pair was in the buffers; the pair was printed, the
\* loop stopped at the next test although neither input had ended
C10_Witness ==
    /\ pc = "done"
    /\ sigint_recv = 1
    /\ input_end = 0
    /\ max_len = 0
    /\ NChunks >= 1
    /\ Len(out) = NChunks

\* ------------------------------------------------ the width fit on its own
\* main at the end of option parsing (hexdiff.c:207), with every display
\* width from -MaxWidth to MaxWidth left in size_w by TIOCGWINSZ or -w, dense
\* either way, and bytes_w as the declaration or a -c option left it.
InitFit ==
    /\ pc = "getopt"
    /\ optsleft = 0
    /\ show_all = 0 /\ skip_same = 0
    /\ dense \in {0, 1}
    /\ size_w \in (-MaxWidth)..MaxWidth
    /\ last_c \in {-1} \cup ColArgs
    /\ bytes_w = IF last_c = -1 THEN DefaultBytesW ELSE ClampCols(last_c)
    /\ max_len = 0
    /\ skip1 = 0 /\ skip2 = 0
    /\ file1 = "null" /\ file2 = "null"
    /\ len1 = 0 /\ len2 = 0 /\ pos1 = 0 /\ pos2 = 0
    /\ handler = FALSE
    /\ sigint_recv = 0
    /\ input_end = 0 /\ cnt = 0 /\ eq_run = 0
    /\ buf1 = <<>> /\ buf2 = <<>>
    /\ r1 = 0 /\ r2 = 0
    /\ out = <<>>
    /\ line = <<>>
    /\ chunks = <<>>
    /\ status = "running"

NextFit == FitWidth

SpecFit == InitFit /\ [][NextFit]_vars

\* ---- C11
\* characters a row puts on the terminal: the sum over its conversions
RECURSIVE CharsIn(_, _, _)
CharsIn(toks, lo, hi) ==
    IF lo > hi THEN 0
    ELSE IF lo = hi THEN toks[lo].len
    ELSE LET mid == (lo + hi) \div 2
         IN  CharsIn(toks, lo, mid) + CharsIn(toks, mid + 1, hi)

TokChars(toks) == CharsIn(toks, 1, Len(toks))

ZeroChunk(n) == [i \in 1..n |-> 0]

\* length of the line print_same writes for a row of n bytes
RowChars(n, d) == TokChars(print_same(ZeroChunk(n), ZeroChunk(n), n, 0, 0, 0, d))

\* the row width n is the largest whose line fits in width
LargestFit(n, width, d) ==
    /\ \A k \in 1..n : RowChars(k, d) <= width
    /\ RowChars(n + 1, d) > width

\* the row width the -c option or the declaration left
ColumnsValue == IF last_c = -1 THEN DefaultBytesW ELSE ClampCols(last_c)

\* C11 as stated: for a display width that holds a one-byte row fit_bytes
\* returns the largest row width whose line (28 characters of offset labels,
\* 2 * W * (2 + (0 if dense else 1)) of hex, 2 separators, 2 * W of ASCII
\* and the gap of 4) does not exceed the width; for every narrower width,
\* zero and negative ones included, the row width used is 1.
C11_FitLargestOrOne ==
    (pc = "args") =>
        IF size_w >= RowChars(1, dense)
        THEN /\ bytes_w = fit_bytes(size_w, dense)
             /\ LargestFit(bytes_w, size_w, dense)
        ELSE bytes_w = 1

\* C11 amended: the same for every width other than 0; with size_w = 0 no
\* width is in effect, fit_bytes is not called and the row width stays what
\* -c or the default of 16 made it.
C11_FitLargestOrOneNonzero ==
    (pc = "args") =>
        /\ (size_w >= RowChars(1, dense)) =>
              /\ bytes_w = fit_bytes(size_w, dense)
              /\ LargestFit(bytes_w, size_w, dense)
        /\ (size_w < RowChars(1, dense) /\ size_w # 0) => bytes_w = 1
        /\ (size_w = 0) => bytes_w = ColumnsValue
        /\ RowChars(bytes_w, dense) = 28 + 2 * bytes_w * (2 + Not(dense)) + 2 + 2 * bytes_w + 4

\* an 80-column display, not dense: 5 bytes per row (74 characters; 6 would
\* take 82)
C11_Witness ==
    /\ pc = "args"
    /\ size_w = 80 /\ dense = 0
    /\ bytes_w = 5
    /\ RowChars(5, 0) = 74 /\ RowChars(6, 0) = 82

====
